---- MODULE Spec2Model ----
(***************************************************************************)
(* Forever Wall: the write path of POST /api/wall (rate limiter, field     *)
(* validation, proof-of-work, insert into the messages table), the         *)
(* rate-limit sweep timer, and the browser page's direct insert.           *)
(*                                                                         *)
(* Times are milliseconds as returned by Date.now().  Strings are          *)
(* sequences of one-character strings.                                     *)
(***************************************************************************)
EXTENDS Integers, Sequences, FiniteSets, TLC

\* ------------------------------------------------------------------------
\* Program constants
\* ------------------------------------------------------------------------
MAX_POSTS_PER_HOUR == 10
COOLDOWN_MS == 60000
WINDOW_MS == 3600000
MAX_MESSAGE_LENGTH == 280
DIFFICULTY == 5
POSITION_MIN == 200
POSITION_SPAN == 2600
CHALLENGE_TTL_MS == 5 * 60 * 1000
CHALLENGE_SWEEP_MS == 60000
\* positions are real numbers: held in hundredths
PositionScale == 100

COLORS ==
  << "#ff6b6b", "#feca57", "#48dbfb", "#ff9ff3", "#54a0ff",
     "#5f27cd", "#00d2d3", "#1dd1a1", "#ff9f43", "#ee5a24" >>

\* ------------------------------------------------------------------------
\* Bounds of the model
\* ------------------------------------------------------------------------
\* number of clock steps explored by each specification
MaxGateTicks == 1
MaxCapTicks == 10
MaxRoundTicks == 22
MaxWindowTicks == 18
MaxChallengeTicks == 3
\* clock steps during which challenges are issued under the sweep timer
MaxIssueTicks == 3
\* difficulties tried on verifyProofOfWork
MaxDifficulty == 7
\* number of server-generated UUIDs, rows of the messages table
MaxUuid == 2
MaxRows == 2
\* number of messages the page places
MaxPage == 1
\* Math.random() is modelled as r / RandomDenom with r in 0 .. RandomDenom-1
RandomDenom == 1000

\* ------------------------------------------------------------------------
\* State
\* ------------------------------------------------------------------------
VARIABLES
  now,            \* Date.now()
  env,            \* which Supabase environment variables are set
  rateLimits,     \* the Map rateLimits: ip -> {count, resetAt, lastPost}
  messages,       \* rows of the Supabase table messages, in insertion order
  nextUuid,       \* crypto.randomUUID() on the server: the next fresh id
  reqs,           \* POST requests in flight, by task slot
  out,            \* the response POST sent in the latest step (NoResponse if none)
  placingMessage, \* page state: the message being placed, or NoPlacing
  pageMessages,   \* page state: ids of the messages the page shows
  chk,            \* the checkRateLimit call of the latest step (NoCheck if none):
                  \* its key, the record it found, its result
  lastAllowed,    \* history: ip -> time of its last allowed check (-1 if none)
  prov,           \* history: row id -> the write path and request that made it
  probe,          \* history: the allowed checks of one key in one interval of
                  \* WINDOW_MS, counted from the time the observer starts
  challenges,     \* the challenges Map of the challenge route: nonce -> challenge
  wall,           \* the response of GET /wall sent by the latest step (NoWall if none)
  pow,            \* the latest call of verifyProofOfWork on its own: arguments, result
  swept,          \* the latest step was a run of the rateLimits sweep
  challengeTimer, \* the timer of the challenge sweep: time of its last run, ran in the latest step
  windowAllowed,  \* history: client key -> checks allowed since its window was opened
  shadow,         \* history: rateLimits as it would be had no sweep ever run
  reader          \* page state: the load of the wall and the subscription to its inserts

vars == << now, env, rateLimits, messages, nextUuid, reqs, out,
           placingMessage, pageMessages, chk, lastAllowed, prov, probe,
           challenges, wall, pow, swept,
           challengeTimer,
           windowAllowed,
           shadow,
           reader >>

None == "none"

\* ------------------------------------------------------------------------
\* Helpers: Math.ceil(a / b) for b > 0, Map.set, Map.delete
\* ------------------------------------------------------------------------
CeilDiv(a, b) == IF a >= 0 THEN (a + b - 1) \div b ELSE 0 - ((0 - a) \div b)

MapSet(m, k, v) == [x \in (DOMAIN m) \cup {k} |-> IF x = k THEN v ELSE m[x]]

MapDelete(m, ks) == [x \in (DOMAIN m) \ ks |-> m[x]]

EmptyMap == [x \in {} |-> None]

Rep(c, n) == [i \in 1..n |-> c]

\* ------------------------------------------------------------------------
\* String.prototype.trim
\* ------------------------------------------------------------------------
IsSpace(c) == c \in {" ", "\t", "\n"}

RECURSIVE TrimLeft(_)
TrimLeft(s) == IF s # <<>> /\ IsSpace(Head(s)) THEN TrimLeft(Tail(s)) ELSE s

RECURSIVE TrimRight(_)
TrimRight(s) ==
  IF s # <<>> /\ IsSpace(s[Len(s)]) THEN TrimRight(SubSeq(s, 1, Len(s) - 1)) ELSE s

Trim(s) == TrimRight(TrimLeft(s))

\* ------------------------------------------------------------------------
\* crypto.createHash('sha256').update(str).digest('hex')
\* SHA-256 itself is tabulated: the true lowercase hex digests of the
\* strings the model hashes.
\* ------------------------------------------------------------------------
Str_n2_53963 == <<"n","2","5","3","9","6","3">>
Str_n1_863167 == <<"n","1","8","6","3","1","6","7">>
Str_n2_6657 == <<"n","2","6","6","5","7">>
Str_n1_0 == <<"n","1","0">>

SHA256Hex(str) ==
  CASE str = Str_n2_53963 ->
         <<"0","0","0","0","0","b","e","5","0","7","7","7","2","4","7","b",
           "6","7","a","d","9","c","5","a","f","7","f","7","5","b","7","0",
           "5","f","e","e","b","4","a","9","0","8","a","9","f","c","7","0",
           "a","7","c","5","2","8","7","d","9","9","b","9","d","2","8","e">>
    [] str = Str_n1_863167 ->
         <<"0","0","0","0","0","0","e","2","9","f","1","e","4","7","0","1",
           "9","1","8","3","6","a","0","0","4","b","9","c","5","c","0","d",
           "8","4","9","9","3","d","d","b","6","f","2","8","1","d","b","d",
           "7","c","f","8","c","1","2","b","1","2","b","c","f","2","f","8">>
    [] str = Str_n2_6657 ->
         <<"0","0","0","0","d","c","0","a","c","e","5","2","7","a","4","8",
           "6","4","6","0","b","5","4","7","4","3","2","c","6","7","7","7",
           "3","b","d","c","e","f","6","f","e","2","f","2","1","3","6","c",
           "5","8","8","4","0","8","2","4","0","5","7","8","5","3","f","5">>
    [] str = Str_n1_0 ->
         <<"7","9","6","6","9","0","d","3","d","2","8","4","e","c","0","9",
           "8","f","0","f","3","0","b","5","8","c","6","6","f","9","5","a",
           "7","0","a","c","3","2","e","7","c","2","e","c","3","8","d","3",
           "9","a","5","0","4","a","2","9","d","c","9","f","3","7","6","b">>

StartsWith_NoLonger(s, prefix) ==
  /\ Len(prefix) <= Len(s)
  /\ SubSeq(s, 1, Len(prefix)) = prefix
  /\ \/ Len(prefix) = 0
     \/ Len(s) = Len(prefix)
     \/ s[Len(prefix) + 1] # prefix[Len(prefix)]

\* String.prototype.startsWith
StartsWith(s, prefix) ==
  /\ Len(prefix) <= Len(s)
  /\ SubSeq(s, 1, Len(prefix)) = prefix

verifyProofOfWork_FirstChar(nonce, solution, difficulty) ==
  LET hash == SHA256Hex(nonce \o solution)
  IN difficulty = 0 \/ StartsWith(hash, <<"0">>)

verifyProofOfWork(nonce, solution, difficulty) ==
  LET hash == SHA256Hex(nonce \o solution)
      prefix == Rep("0", difficulty)
  IN StartsWith(hash, prefix)

\* ------------------------------------------------------------------------
\* getClientIP: the request carries the x-forwarded-for header already
\* split at ',' and trimmed (a sequence of addresses, <<>> when the header
\* is absent or empty) and the x-real-ip header (None when absent).
\* ------------------------------------------------------------------------
getClientIP(request) ==
  IF request.forwarded # <<>> THEN request.forwarded[1]
  ELSE IF request.real # None THEN request.real
  ELSE "unknown"

\* ------------------------------------------------------------------------
\* checkRateLimit(ip) at Date.now() = t on the Map rl.
\* Returns the result object and the Map as the call leaves it.
\* ------------------------------------------------------------------------
NoError == [kind |-> None, n |-> 0]

NewRecord_ZeroCount(t) == [count |-> 0, resetAt |-> t + WINDOW_MS, lastPost |-> t]

NewRecord_TwoHours(t) == [count |-> 1, resetAt |-> t + 2 * WINDOW_MS, lastPost |-> t]

NewRecord(t) == [count |-> 1, resetAt |-> t + WINDOW_MS, lastPost |-> t]

CooldownActive_Inverted(limit, t) == t - limit.lastPost > COOLDOWN_MS

CooldownActive(limit, t) == t - limit.lastPost < COOLDOWN_MS

CooldownWaitSeconds_Floor(limit, t) ==
  (COOLDOWN_MS - (t - limit.lastPost)) \div 1000

CooldownWaitSeconds(limit, t) ==
  CeilDiv(COOLDOWN_MS - (t - limit.lastPost), 1000)

WindowExpired(limit, t) == t > limit.resetAt

RollWindow_KeepCount(limit, t) == [limit EXCEPT !.resetAt = t + WINDOW_MS]

RollWindow(limit, t) == [limit EXCEPT !.count = 0, !.resetAt = t + WINDOW_MS]

AtHourlyCap_OffByOne(limit) == limit.count > MAX_POSTS_PER_HOUR

AtHourlyCap(limit) == limit.count >= MAX_POSTS_PER_HOUR

CapWaitMinutes_Floor(limit, t) == (limit.resetAt - t) \div 60000

CapWaitMinutes(limit, t) == CeilDiv(limit.resetAt - t, 60000)

AllowAndUpdate_LostUpdate(limit, t) ==
  [limit EXCEPT !.count = IF @ = 0 THEN 1 ELSE @, !.lastPost = t]

AllowAndUpdate_KeepLastPost(limit, t) == [limit EXCEPT !.count = @ + 1]

AllowAndUpdate(limit, t) == [limit EXCEPT !.count = @ + 1, !.lastPost = t]

checkRateLimit_DeniedTouches(ip, t, rl) ==
  IF ip \notin DOMAIN rl
  THEN [store |-> MapSet(rl, ip, NewRecord(t)),
        allowed |-> TRUE, error |-> NoError, retryAfter |-> None]
  ELSE
    LET limit == rl[ip] IN
    IF CooldownActive(limit, t)
    THEN [store |-> MapSet(rl, ip, [limit EXCEPT !.count = @ + 1]), allowed |-> FALSE,
          error |-> [kind |-> "cooldown", n |-> CooldownWaitSeconds(limit, t)],
          retryAfter |-> CooldownWaitSeconds(limit, t)]
    ELSE
      LET rolled == IF WindowExpired(limit, t) THEN RollWindow(limit, t) ELSE limit IN
      IF AtHourlyCap(rolled)
      THEN [store |-> MapSet(rl, ip, rolled), allowed |-> FALSE,
            error |-> [kind |-> "hourly", n |-> CapWaitMinutes(rolled, t)],
            retryAfter |-> CapWaitMinutes(rolled, t) * 60]
      ELSE [store |-> MapSet(rl, ip, AllowAndUpdate(rolled, t)),
            allowed |-> TRUE, error |-> NoError, retryAfter |-> None]

checkRateLimit(ip, t, rl) ==
  IF ip \notin DOMAIN rl
  THEN [store |-> MapSet(rl, ip, NewRecord(t)),
        allowed |-> TRUE, error |-> NoError, retryAfter |-> None]
  ELSE
    LET limit == rl[ip] IN
    IF CooldownActive(limit, t)
    THEN [store |-> rl, allowed |-> FALSE,
          error |-> [kind |-> "cooldown", n |-> CooldownWaitSeconds(limit, t)],
          retryAfter |-> CooldownWaitSeconds(limit, t)]
    ELSE
      LET rolled == IF WindowExpired(limit, t) THEN RollWindow(limit, t) ELSE limit IN
      IF AtHourlyCap(rolled)
      THEN [store |-> MapSet(rl, ip, rolled), allowed |-> FALSE,
            error |-> [kind |-> "hourly", n |-> CapWaitMinutes(rolled, t)],
            retryAfter |-> CapWaitMinutes(rolled, t) * 60]
      ELSE [store |-> MapSet(rl, ip, AllowAndUpdate(rolled, t)),
            allowed |-> TRUE, error |-> NoError, retryAfter |-> None]

SweepEvicts_Either(data, t) == data.resetAt < t \/ data.lastPost < t - 3600000

SweepEvicts_WindowOnly(data, t) == data.resetAt < t

\* the periodic cleanup of rateLimits
SweepEvicts(data, t) == data.resetAt < t /\ data.lastPost < t - 3600000

\* ------------------------------------------------------------------------
\* JavaScript values of the request body fields
\* ------------------------------------------------------------------------
Undefined == [t |-> "undefined", v |-> <<>>]

JsString(s) == [t |-> "string", v |-> s]

\* !value for the values above
Falsy(value) == value.t = "undefined" \/ (value.t = "string" /\ value.v = <<>>)

\* ------------------------------------------------------------------------
\* POST, from the parsed body to the proof-of-work check: the status and
\* error of the first return taken, or ok when the handler goes on to build
\* the message.  body.kind = "garbage" is a body on which request.json()
\* (or the destructuring of its result) throws; the catch answers 400.
\* ------------------------------------------------------------------------
Pass == [ok |-> TRUE, status |-> 200, error |-> None, gates |-> <<"validate", "pow">>]

Reject_Unprocessable(status, error, gates) ==
  [ok |-> FALSE, status |-> 422, error |-> error, gates |-> gates]

Reject(status, error, gates) ==
  [ok |-> FALSE, status |-> status, error |-> error, gates |-> gates]

postChecks_PowFirst(body) ==
  IF body.kind = "garbage" THEN Reject(400, "Invalid request", <<"validate">>)
  ELSE IF body.nonce.t = "string" /\ body.solution.t = "string"
          /\ ~Falsy(body.nonce) /\ ~Falsy(body.solution)
          /\ ~verifyProofOfWork(body.nonce.v, body.solution.v, DIFFICULTY)
  THEN Reject(400, "Invalid proof of work", <<"pow">>)
  ELSE IF Falsy(body.message) \/ body.message.t # "string"
  THEN Reject(400, "Message is required", <<"pow", "validate">>)
  ELSE IF Falsy(body.nonce) \/ Falsy(body.solution)
  THEN Reject(400, "Proof of work required", <<"pow", "validate">>)
  ELSE IF Len(body.message.v) > MAX_MESSAGE_LENGTH
  THEN Reject(400, "Message must be 280 characters or less", <<"pow", "validate">>)
  ELSE Pass

postChecks_PowIgnored(body) ==
  IF body.kind = "garbage" THEN Reject(400, "Invalid request", <<"validate">>)
  ELSE IF Falsy(body.message) \/ body.message.t # "string"
  THEN Reject(400, "Message is required", <<"validate">>)
  ELSE IF Falsy(body.nonce) \/ Falsy(body.solution)
  THEN Reject(400, "Proof of work required", <<"validate">>)
  ELSE IF Len(body.message.v) > MAX_MESSAGE_LENGTH
  THEN Reject(400, "Message must be 280 characters or less", <<"validate">>)
  ELSE Pass

postChecks_RequiresIssued(body) ==
  IF body.kind = "garbage" THEN Reject(400, "Invalid request", <<"validate">>)
  ELSE IF Falsy(body.message) \/ body.message.t # "string"
  THEN Reject(400, "Message is required", <<"validate">>)
  ELSE IF Falsy(body.nonce) \/ Falsy(body.solution)
  THEN Reject(400, "Proof of work required", <<"validate">>)
  ELSE IF Len(body.message.v) > MAX_MESSAGE_LENGTH
  THEN Reject(400, "Message must be 280 characters or less", <<"validate">>)
  ELSE IF \/ body.nonce.v \notin DOMAIN challenges
          \/ ~verifyProofOfWork(body.nonce.v, body.solution.v, DIFFICULTY)
  THEN Reject(400, "Invalid proof of work", <<"validate", "pow">>)
  ELSE Pass

postChecks(body) ==
  IF body.kind = "garbage" THEN Reject(400, "Invalid request", <<"validate">>)
  ELSE IF Falsy(body.message) \/ body.message.t # "string"
  THEN Reject(400, "Message is required", <<"validate">>)
  ELSE IF Falsy(body.nonce) \/ Falsy(body.solution)
  THEN Reject(400, "Proof of work required", <<"validate">>)
  ELSE IF Len(body.message.v) > MAX_MESSAGE_LENGTH
  THEN Reject(400, "Message must be 280 characters or less", <<"validate">>)
  ELSE IF ~verifyProofOfWork(body.nonce.v, body.solution.v, DIFFICULTY)
  THEN Reject(400, "Invalid proof of work", <<"validate", "pow">>)
  ELSE Pass

\* 200 + Math.random() * 2600, for Math.random() = r / RandomDenom
RandomPosition(r) ==
  POSITION_MIN * PositionScale + (r * POSITION_SPAN * PositionScale) \div RandomDenom

\* COLORS[Math.floor(Math.random() * COLORS.length)]
RandomColor(r) == COLORS[((r * Len(COLORS)) \div RandomDenom) + 1]

\* Math.round of a position
Round(p) == (2 * p + PositionScale) \div (2 * PositionScale)

\* the server-side client: url && (SUPABASE_SERVICE_KEY || ANON_KEY)
supabase == env.url /\ (env.serviceKey \/ env.anonKey)

\* the client of the browser page: url && (ANON_KEY || PUBLISHABLE_DEFAULT_KEY)
pageSupabase == env.url /\ (env.anonKey \/ env.publishableKey)

Environments ==
  { [url |-> FALSE, serviceKey |-> FALSE, anonKey |-> FALSE, publishableKey |-> FALSE],
    [url |-> TRUE, serviceKey |-> TRUE, anonKey |-> TRUE, publishableKey |-> FALSE] }

\* the x, y and color fields of a request body (sent: whether it has them)
NoPlacement == [sent |-> FALSE, x |-> 0, y |-> 0, color |-> None]

NoBody == [kind |-> None, message |-> Undefined, nonce |-> Undefined,
           solution |-> Undefined, placement |-> NoPlacement]

NoMessage == [id |-> 0, text |-> <<>>, x |-> 0, y |-> 0, color |-> None,
              created_at |-> 0]

NoPlacing == [text |-> <<>>, color |-> None]

\* the page before its effect has run: nothing fetched, no channel.
\* since and processed are history: the number of rows persisted when the
\* load started, and the ids of the insert events the page has handled
NoReader == [mounted |-> FALSE, fetch |-> "none", hasData |-> FALSE, data |-> <<>>,
             channel |-> "none", events |-> <<>>, since |-> 0, processed |-> {}]

Idle == [pc |-> "idle", ip |-> None, allowed |-> FALSE, body |-> NoBody,
         newMessage |-> NoMessage, trace |-> <<>>, checked |-> 0]

NoResponse ==
  [status |-> 0, success |-> FALSE, error |-> None, retry_after_seconds |-> None,
   remaining |-> None, data |-> NoMessage, ip |-> None, allowed |-> FALSE,
   body |-> NoBody, trace |-> <<>>, checked |-> 0]

NoRecord == [count |-> 0, resetAt |-> 0, lastPost |-> 0]

NoCheck == [ip |-> None, had |-> FALSE, prior |-> NoRecord, allowed |-> FALSE,
            error |-> NoError, retryAfter |-> None,
            unswept |-> [had |-> FALSE, allowed |-> FALSE, error |-> NoError,
                         retryAfter |-> None]]

NoProbe == [ip |-> None, start |-> 0, count |-> 0]

NoWall == [status |-> 0, success |-> FALSE, error |-> None, format |-> None,
           limit |-> [nan |-> FALSE, v |-> 0], count |-> 0, messages |-> <<>>,
           text |-> <<>>, rows |-> <<>>, queried |-> FALSE,
           param |-> [t |-> "undefined", v |-> <<>>]]

\* setInterval of the challenge route, started when the module loads
NoTimer == [last |-> 0, ran |-> FALSE]

NoPow == [nonce |-> <<>>, solution |-> <<>>, difficulty |-> 0, called |-> FALSE,
          result |-> FALSE]

Slots == {1, 2}

Init ==
  /\ now = 0
  /\ env \in Environments
  /\ rateLimits = EmptyMap
  /\ messages = <<>>
  /\ nextUuid = 1
  /\ reqs = [s \in Slots |-> Idle]
  /\ out = NoResponse
  /\ placingMessage = NoPlacing
  /\ pageMessages = <<>>
  /\ chk = NoCheck
  /\ lastAllowed = EmptyMap
  /\ prov = EmptyMap
  /\ probe = NoProbe
  /\ challenges = EmptyMap
  /\ wall = NoWall
  /\ pow = NoPow
  /\ swept = FALSE
  /\ challengeTimer = NoTimer
  /\ windowAllowed = EmptyMap
  /\ shadow = EmptyMap
  /\ reader = NoReader

\* ------------------------------------------------------------------------
\* The clock advances by d, up to the horizon of the specification
\* ------------------------------------------------------------------------
Tick(d, horizon) ==
  /\ now + d <= horizon
  /\ now' = now + d
  /\ out' = NoResponse
  /\ chk' = NoCheck
  /\ wall' = NoWall
  /\ swept' = FALSE
  /\ challengeTimer' = [challengeTimer EXCEPT !.ran = FALSE]
  /\ UNCHANGED << reader, shadow, windowAllowed, challenges, pow, env, rateLimits, messages, nextUuid, reqs,
                  placingMessage, pageMessages, lastAllowed, prov, probe >>

\* the clock advances to the instant t
TickTo(t) ==
  /\ t > now
  /\ now' = t
  /\ out' = NoResponse
  /\ chk' = NoCheck
  /\ wall' = NoWall
  /\ swept' = FALSE
  /\ challengeTimer' = [challengeTimer EXCEPT !.ran = FALSE]
  /\ UNCHANGED << reader, shadow, windowAllowed, challenges, pow, env, rateLimits, messages, nextUuid, reqs,
                  placingMessage, pageMessages, lastAllowed, prov, probe >>

\* ------------------------------------------------------------------------
\* setInterval callback: clean up old rateLimits entries
\* ------------------------------------------------------------------------
RateSweep ==
  /\ rateLimits' =
       MapDelete(rateLimits, {ip \in DOMAIN rateLimits : SweepEvicts(rateLimits[ip], now)})
  /\ out' = NoResponse
  /\ chk' = NoCheck
  /\ wall' = NoWall
  /\ swept' = TRUE
  /\ challengeTimer' = [challengeTimer EXCEPT !.ran = FALSE]
  /\ windowAllowed' = MapDelete(windowAllowed, DOMAIN windowAllowed \ DOMAIN rateLimits')
  /\ UNCHANGED << reader, shadow, challenges, pow, now, env, messages, nextUuid, reqs,
                  placingMessage, pageMessages, lastAllowed, prov, probe >>

\* ------------------------------------------------------------------------
\* POST, first part: from the entry to `await request.json()`
\* ------------------------------------------------------------------------
Receive(s, request) ==
  /\ reqs[s].pc = "idle"
  /\ LET ip == getClientIP(request)
         rateCheck == checkRateLimit(ip, now, rateLimits)
         unswept == checkRateLimit(ip, now, shadow)
     IN /\ rateLimits' = rateCheck.store
        /\ chk' = [ip |-> ip, had |-> ip \in DOMAIN rateLimits,
                   prior |-> IF ip \in DOMAIN rateLimits THEN rateLimits[ip]
                             ELSE NoRecord,
                   allowed |-> rateCheck.allowed,
                   error |-> rateCheck.error, retryAfter |-> rateCheck.retryAfter,
                   unswept |-> [had |-> ip \in DOMAIN shadow,
                                allowed |-> unswept.allowed, error |-> unswept.error,
                                retryAfter |-> unswept.retryAfter]]
        /\ shadow' = unswept.store
        /\ lastAllowed' = IF rateCheck.allowed THEN MapSet(lastAllowed, ip, now)
                          ELSE lastAllowed
        /\ windowAllowed' =
             LET opened == \/ ip \notin DOMAIN rateLimits
                           \/ rateCheck.store[ip].resetAt # rateLimits[ip].resetAt
                 before == IF opened THEN 0 ELSE windowAllowed[ip]
             IN MapSet(windowAllowed, ip,
                       IF rateCheck.allowed THEN before + 1 ELSE before)
        /\ probe' = IF /\ rateCheck.allowed
                       /\ probe.ip = ip
                       /\ probe.start <= now
                       /\ now < probe.start + WINDOW_MS
                    THEN [probe EXCEPT !.count = @ + 1]
                    ELSE probe
        /\ IF ~rateCheck.allowed
           THEN /\ out' = [NoResponse EXCEPT
                             !.status = 429,
                             !.error = rateCheck.error,
                             !.retry_after_seconds = rateCheck.retryAfter,
                             !.ip = ip, !.body = request.body,
                             !.trace = <<"rate">>]
                /\ reqs' = reqs
           ELSE /\ reqs' = [reqs EXCEPT ![s] =
                             [Idle EXCEPT !.pc = "json", !.ip = ip, !.allowed = TRUE,
                                          !.checked = rateCheck.store[ip].count,
                                          !.body = request.body, !.trace = <<"rate">>]]
                /\ out' = NoResponse
  /\ wall' = NoWall
  /\ swept' = FALSE
  /\ challengeTimer' = [challengeTimer EXCEPT !.ran = FALSE]
  /\ UNCHANGED << reader, challenges, pow, now, env, messages, nextUuid, placingMessage, pageMessages, prov >>

\* ------------------------------------------------------------------------
\* POST, second part: request.json() has settled; validation, proof of
\* work, the new message, up to `await supabase...insert(newMessage)`.
\* rnd are the three Math.random() draws.
\* ------------------------------------------------------------------------
\* the row POST builds: random position and color, trimmed text
NewMessage_ClientPlaced(body, id, rnd, t) ==
  [id |-> id,
   text |-> Trim(body.message.v),
   x |-> IF body.placement.sent THEN body.placement.x * PositionScale
         ELSE RandomPosition(rnd[1]),
   y |-> IF body.placement.sent THEN body.placement.y * PositionScale
         ELSE RandomPosition(rnd[2]),
   color |-> IF body.placement.sent THEN body.placement.color
             ELSE RandomColor(rnd[3]),
   created_at |-> t]

NewMessage(body, id, rnd, t) ==
  [id |-> id,
   text |-> Trim(body.message.v),
   x |-> RandomPosition(rnd[1]),
   y |-> RandomPosition(rnd[2]),
   color |-> RandomColor(rnd[3]),
   created_at |-> t]

HandleBody(s, rnd) ==
  /\ reqs[s].pc = "json"
  /\ LET req == reqs[s]
         checks == postChecks(req.body)
         newMessage == NewMessage(req.body, nextUuid, rnd, now)
     IN IF ~checks.ok
        THEN /\ out' = [NoResponse EXCEPT
                          !.status = checks.status, !.error = checks.error,
                          !.ip = req.ip, !.allowed = req.allowed, !.checked = req.checked, !.body = req.body,
                          !.trace = req.trace \o checks.gates]
             /\ reqs' = [reqs EXCEPT ![s] = Idle]
             /\ nextUuid' = nextUuid
        ELSE /\ nextUuid <= MaxUuid
             /\ nextUuid' = nextUuid + 1
             /\ IF ~supabase
                THEN /\ out' = [NoResponse EXCEPT
                                  !.status = 500, !.error = "Database not configured",
                                  !.ip = req.ip, !.allowed = req.allowed, !.checked = req.checked,
                                  !.body = req.body,
                                  !.trace = req.trace \o checks.gates]
                     /\ reqs' = [reqs EXCEPT ![s] = Idle]
                ELSE /\ reqs' = [reqs EXCEPT ![s] =
                                  [req EXCEPT !.pc = "insert",
                                              !.newMessage = newMessage,
                                              !.trace = req.trace \o checks.gates]]
                     /\ out' = NoResponse
  /\ chk' = NoCheck
  /\ wall' = NoWall
  /\ swept' = FALSE
  /\ challengeTimer' = [challengeTimer EXCEPT !.ran = FALSE]
  /\ UNCHANGED << reader, shadow, windowAllowed, challenges, pow, now, env, rateLimits, messages, placingMessage, pageMessages,
                  lastAllowed, prov, probe >>

\* ------------------------------------------------------------------------
\* POST, third part: the insert has settled (dbError when the store
\* reports an error); the remaining posts are read and the response sent.
\* ------------------------------------------------------------------------
\* the INSERT event of a row, sent to the page when its channel has joined
Publish(rd, row) ==
  IF rd.channel = "joined" THEN [rd EXCEPT !.events = Append(@, row.id)] ELSE rd

\* supabase.from('messages').insert(row) on the table
Insert_KeepLatest(table, row) ==
  IF table = <<>> THEN <<row>> ELSE Append(Tail(table), row)

Insert(table, row) == Append(table, row)

InsertDone(s, dbError) ==
  /\ reqs[s].pc = "insert"
  /\ LET req == reqs[s]
         remainingPosts == IF req.ip \in DOMAIN rateLimits
                           THEN MAX_POSTS_PER_HOUR - rateLimits[req.ip].count
                           ELSE MAX_POSTS_PER_HOUR - 1
     IN IF dbError
        THEN /\ out' = [NoResponse EXCEPT
                          !.status = 500, !.error = "Failed to save message",
                          !.ip = req.ip, !.allowed = req.allowed, !.checked = req.checked, !.body = req.body,
                          !.trace = req.trace \o <<"persist">>]
             /\ UNCHANGED << messages, prov, reader >>
        ELSE /\ Len(messages) < MaxRows
             /\ messages' = Insert(messages, req.newMessage)
             /\ reader' = Publish(reader, req.newMessage)
             /\ prov' = MapSet(prov, req.newMessage.id,
                               [via |-> "POST", ip |-> req.ip,
                                allowed |-> req.allowed, body |-> req.body])
             /\ out' = [NoResponse EXCEPT
                          !.status = 200, !.success = TRUE,
                          !.remaining = remainingPosts,
                          !.data = [req.newMessage EXCEPT
                                      !.x = Round(req.newMessage.x),
                                      !.y = Round(req.newMessage.y)],
                          !.ip = req.ip, !.allowed = req.allowed, !.checked = req.checked, !.body = req.body,
                          !.trace = req.trace \o <<"persist">>]
  /\ reqs' = [reqs EXCEPT ![s] = Idle]
  /\ chk' = NoCheck
  /\ wall' = NoWall
  /\ swept' = FALSE
  /\ challengeTimer' = [challengeTimer EXCEPT !.ran = FALSE]
  /\ UNCHANGED << shadow, windowAllowed, challenges, pow, now, env, rateLimits, nextUuid, placingMessage, pageMessages,
                  lastAllowed, probe >>

\* ------------------------------------------------------------------------
\* The browser page: handleAddMessage and handleCanvasClick
\* ------------------------------------------------------------------------
handleAddMessage(newText, r) ==
  /\ Trim(newText) # <<>>
  /\ placingMessage' = [text |-> Trim(newText), color |-> RandomColor(r)]
  /\ out' = NoResponse
  /\ chk' = NoCheck
  /\ wall' = NoWall
  /\ swept' = FALSE
  /\ challengeTimer' = [challengeTimer EXCEPT !.ran = FALSE]
  /\ UNCHANGED << reader, shadow, windowAllowed, challenges, pow, now, env, rateLimits, messages, nextUuid, reqs,
                  pageMessages, lastAllowed, prov, probe >>

handleCanvasClick(x, y, id) ==
  /\ placingMessage # NoPlacing
  /\ Len(pageMessages) < MaxPage
  /\ LET newMessage == [id |-> id, text |-> placingMessage.text,
                        x |-> x, y |-> y, color |-> placingMessage.color,
                        created_at |-> now]
         accepted == /\ pageSupabase
                     /\ Len(messages) < MaxRows
                     /\ \A i \in 1..Len(messages) : messages[i].id # id
     IN /\ pageMessages' = Append(pageMessages, id)
        /\ placingMessage' = NoPlacing
        /\ IF accepted
           THEN /\ messages' = Insert(messages, newMessage)
                /\ reader' = Publish(reader, newMessage)
                /\ prov' = MapSet(prov, id, [via |-> "page", ip |-> None,
                                             allowed |-> FALSE, body |-> NoBody])
           ELSE UNCHANGED << messages, prov, reader >>
  /\ out' = NoResponse
  /\ chk' = NoCheck
  /\ wall' = NoWall
  /\ swept' = FALSE
  /\ challengeTimer' = [challengeTimer EXCEPT !.ran = FALSE]
  /\ UNCHANGED << shadow, windowAllowed, challenges, pow, now, env, rateLimits, nextUuid, reqs, lastAllowed, probe >>

\* ------------------------------------------------------------------------
\* The browser page: the effect that loads the wall and subscribes to its
\* inserts.  The list of the page holds the ids of its messages.
\* ------------------------------------------------------------------------
\* the ids '1', '2', '3' of the sample messages (no generated id is one)
DemoMessages == <<0 - 1, 0 - 2, 0 - 3>>

\* .order('created_at', { ascending: true }): the orders of the table's rows
\* the database may answer with (rows of equal created_at in any order)
AscendingOrders(table) ==
  {order \in [1..Len(table) -> 1..Len(table)] :
     /\ \A i, j \in 1..Len(table) : i # j => order[i] # order[j]
     /\ \A i \in 1..(Len(table) - 1) :
          table[order[i]].created_at <= table[order[i + 1]].created_at}

\* the effect runs once: demo mode, or fetchMessages() is called (its query
\* is sent) and the channel is asked to subscribe
useEffect ==
  /\ ~reader.mounted
  /\ IF ~pageSupabase
     THEN /\ pageMessages' = DemoMessages
          /\ reader' = [reader EXCEPT !.mounted = TRUE]
     ELSE /\ pageMessages' = pageMessages
          /\ reader' = [reader EXCEPT !.mounted = TRUE, !.fetch = "sent",
                                      !.channel = "joining",
                                      !.since = Len(messages)]
  /\ out' = NoResponse
  /\ chk' = NoCheck
  /\ wall' = NoWall
  /\ swept' = FALSE
  /\ challengeTimer' = [challengeTimer EXCEPT !.ran = FALSE]
  /\ UNCHANGED << shadow, windowAllowed, challenges, pow, now, env, rateLimits, messages,
                  nextUuid, reqs, placingMessage, lastAllowed, prov, probe >>

\* the database runs the query of fetchMessages (dbError: data is null)
fetchMessagesQuery(dbError) ==
  /\ reader.fetch = "sent"
  /\ IF dbError
     THEN reader' = [reader EXCEPT !.fetch = "answered", !.hasData = FALSE]
     ELSE \E order \in AscendingOrders(messages) :
            reader' = [reader EXCEPT
                         !.fetch = "answered", !.hasData = TRUE,
                         !.data = [i \in 1..Len(messages) |-> messages[order[i]].id]]
  /\ out' = NoResponse
  /\ chk' = NoCheck
  /\ wall' = NoWall
  /\ swept' = FALSE
  /\ challengeTimer' = [challengeTimer EXCEPT !.ran = FALSE]
  /\ UNCHANGED << shadow, windowAllowed, challenges, pow, now, env, rateLimits, messages,
                  nextUuid, reqs, placingMessage, pageMessages, lastAllowed, prov, probe >>

\* fetchMessages resumes after its await: if (data) setMessages(data)
fetchMessagesDone ==
  /\ reader.fetch = "answered"
  /\ pageMessages' = IF reader.hasData THEN reader.data ELSE pageMessages
  /\ reader' = [reader EXCEPT !.fetch = "done"]
  /\ out' = NoResponse
  /\ chk' = NoCheck
  /\ wall' = NoWall
  /\ swept' = FALSE
  /\ challengeTimer' = [challengeTimer EXCEPT !.ran = FALSE]
  /\ UNCHANGED << shadow, windowAllowed, challenges, pow, now, env, rateLimits, messages,
                  nextUuid, reqs, placingMessage, lastAllowed, prov, probe >>

\* the realtime server has joined the channel: inserts are sent from now on
channelJoined ==
  /\ reader.channel = "joining"
  /\ reader' = [reader EXCEPT !.channel = "joined"]
  /\ out' = NoResponse
  /\ chk' = NoCheck
  /\ wall' = NoWall
  /\ swept' = FALSE
  /\ challengeTimer' = [challengeTimer EXCEPT !.ran = FALSE]
  /\ UNCHANGED << shadow, windowAllowed, challenges, pow, now, env, rateLimits, messages,
                  nextUuid, reqs, placingMessage, pageMessages, lastAllowed, prov, probe >>

\* the callback of the channel on the oldest event not yet handled:
\* setMessages((prev) => [...prev, payload.new])
onInsert ==
  /\ reader.events # <<>>
  /\ pageMessages' = Append(pageMessages, Head(reader.events))
  /\ reader' = [reader EXCEPT !.events = Tail(@),
                              !.processed = @ \cup {Head(reader.events)}]
  /\ out' = NoResponse
  /\ chk' = NoCheck
  /\ wall' = NoWall
  /\ swept' = FALSE
  /\ challengeTimer' = [challengeTimer EXCEPT !.ran = FALSE]
  /\ UNCHANGED << shadow, windowAllowed, challenges, pow, now, env, rateLimits, messages,
                  nextUuid, reqs, placingMessage, lastAllowed, prov, probe >>

\* ------------------------------------------------------------------------
\* GET /api/challenge: a fresh challenge for the nonce drawn by
\* crypto.randomBytes(16).toString('hex') is stored under that nonce
\* ------------------------------------------------------------------------
NewChallenge_LongLived(nonce, t) ==
  [nonce |-> nonce, difficulty |-> DIFFICULTY, expires |-> t + 2 * CHALLENGE_TTL_MS]

NewChallenge(nonce, t) ==
  [nonce |-> nonce, difficulty |-> DIFFICULTY, expires |-> t + CHALLENGE_TTL_MS]

GetChallenge(nonce) ==
  /\ challenges' = MapSet(challenges, nonce, NewChallenge(nonce, now))
  /\ out' = NoResponse
  /\ chk' = NoCheck
  /\ wall' = NoWall
  /\ swept' = FALSE
  /\ challengeTimer' = [challengeTimer EXCEPT !.ran = FALSE]
  /\ UNCHANGED << reader, shadow, windowAllowed, now, env, rateLimits, messages, nextUuid, reqs, placingMessage,
                  pageMessages, lastAllowed, prov, probe, pow >>

\* setInterval callback of the challenge route: delete expired challenges
ChallengeExpired_AtExpiry(value, t) == value.expires <= t

ChallengeExpired(value, t) == value.expires < t

ChallengeSweep ==
  /\ challenges' = MapDelete(challenges,
                       {key \in DOMAIN challenges : ChallengeExpired(challenges[key], now)})
  /\ out' = NoResponse
  /\ chk' = NoCheck
  /\ wall' = NoWall
  /\ swept' = FALSE
  /\ challengeTimer' = [last |-> now, ran |-> TRUE]
  /\ UNCHANGED << reader, shadow, windowAllowed, now, env, rateLimits, messages, nextUuid, reqs, placingMessage,
                  pageMessages, lastAllowed, prov, probe, pow >>

\* ------------------------------------------------------------------------
\* GET /api/wall
\* ------------------------------------------------------------------------
Digits == <<"0", "1", "2", "3", "4", "5", "6", "7", "8", "9">>

IsDigit(c) == \E d \in 1..10 : Digits[d] = c

DigitValue(c) == (CHOOSE d \in 1..10 : Digits[d] = c) - 1

\* the value of the longest prefix of digits of str, from the value acc
RECURSIVE DigitsPrefix(_, _)
DigitsPrefix(str, acc) ==
  IF str # <<>> /\ IsDigit(Head(str))
  THEN DigitsPrefix(Tail(str), 10 * acc + DigitValue(Head(str)))
  ELSE acc

NaN == [nan |-> TRUE, v |-> 0]

Number(n) == [nan |-> FALSE, v |-> n]

\* parseInt(string): leading white space, an optional sign, decimal digits
parseInt(string) ==
  LET str == TrimLeft(string)
      signed == str # <<>> /\ Head(str) \in {"-", "+"}
      rest == IF signed THEN Tail(str) ELSE str
  IN IF rest = <<>> \/ ~IsDigit(Head(rest)) THEN NaN
     ELSE IF signed /\ Head(str) = "-" THEN Number(0 - DigitsPrefix(rest, 0))
     ELSE Number(DigitsPrefix(rest, 0))

\* Math.min(a, b) for a number b
MathMin(a, b) == IF a.nan THEN NaN ELSE IF a.v < b THEN a ELSE Number(b)

\* searchParams.get(name) || fallback, for a parameter that is null when absent
ParamOr(param, fallback) == IF Falsy(param) THEN fallback ELSE param.v

\* String(n) of an integer
RECURSIVE Decimal(_)
Decimal(n) ==
  IF n < 0 THEN <<"-">> \o Decimal(0 - n)
  ELSE IF n < 10 THEN <<Digits[n + 1]>>
  ELSE Decimal(n \div 10) \o <<Digits[(n % 10) + 1]>>

\* Array.prototype.join
RECURSIVE Join(_, _)
Join(parts, separator) ==
  IF parts = <<>> THEN <<>>
  ELSE IF Len(parts) = 1 THEN parts[1]
  ELSE parts[1] \o separator \o Join(Tail(parts), separator)

\* `[${i + 1}] "${m.text}" (at ${Math.round(m.x)}, ${Math.round(m.y)})`
TextLine(m, i) ==
  <<"[">> \o Decimal(i) \o <<"]", " ", "\"">> \o m.text
    \o <<"\"", " ", "(", "a", "t", " ">> \o Decimal(Round(m.x))
    \o <<",", " ">> \o Decimal(Round(m.y)) \o <<")">>

WallIsEmpty ==
  <<"T", "h", "e", " ", "w", "a", "l", "l", " ", "i", "s", " ", "e", "m", "p",
    "t", "y", ".">>

\* the body of the text format
TextBody(rows) ==
  LET text == Join([i \in 1..Len(rows) |-> TextLine(rows[i], i)], <<"\n">>)
  IN IF text = <<>> THEN WallIsEmpty ELSE text

\* an element of the messages array of the JSON format
JsonMessage(m) ==
  [id |-> m.id, text |-> m.text,
   position |-> [x |-> Round(m.x), y |-> Round(m.y)],
   color |-> m.color, created_at |-> m.created_at]

\* .order('created_at', { ascending: false }): the orders of the table's rows
\* the database may answer with (rows of equal created_at in any order)
DescendingOrders(table) ==
  {order \in [1..Len(table) -> 1..Len(table)] :
     /\ \A i, j \in 1..Len(table) : i # j => order[i] # order[j]
     /\ \A i \in 1..(Len(table) - 1) :
          table[order[i]].created_at >= table[order[i + 1]].created_at}

\* .limit(count) on the ordered rows
Limited(rows, count) ==
  IF count.v < Len(rows) THEN SubSeq(rows, 1, count.v) ELSE rows

\* the results the database may give for .limit(count): for a count that is
\* not a number or is negative, what it does is its own business (it may
\* also refuse, which is the error of the query)
QueryRows(rows, count) ==
  IF count.nan \/ count.v < 0
  THEN {SubSeq(rows, 1, k) : k \in 0..Len(rows)}
  ELSE {Limited(rows, count)}

FormatText == <<"t", "e", "x", "t">>

GetWall(limitParam, formatParam, dbError) ==
  /\ LET limit == MathMin(parseInt(ParamOr(limitParam, <<"5", "0">>)), 100)
         format == ParamOr(formatParam, <<"j", "s", "o", "n">>)
     IN IF ~supabase
        THEN wall' = [NoWall EXCEPT !.status = 500,
                                    !.error = "Database not configured"]
        ELSE IF dbError
        THEN wall' = [NoWall EXCEPT !.status = 500, !.limit = limit,
                                    !.queried = TRUE, !.param = limitParam,
                                    !.error = "Failed to fetch messages"]
        ELSE \E order \in DescendingOrders(messages) :
             \E rows \in QueryRows([i \in 1..Len(messages) |-> messages[order[i]]],
                                   limit) :
                  IF format = FormatText
                  THEN wall' = [NoWall EXCEPT !.status = 200, !.format = "text",
                                              !.limit = limit, !.rows = rows,
                                              !.queried = TRUE,
                                              !.param = limitParam,
                                              !.text = TextBody(rows)]
                  ELSE wall' = [NoWall EXCEPT
                                  !.status = 200, !.success = TRUE,
                                  !.format = "json", !.limit = limit,
                                  !.rows = rows, !.queried = TRUE,
                                  !.param = limitParam,
                                  !.count = Len(rows),
                                  !.messages =
                                     [i \in 1..Len(rows) |-> JsonMessage(rows[i])]]
  /\ out' = NoResponse
  /\ chk' = NoCheck
  /\ swept' = FALSE
  /\ challengeTimer' = [challengeTimer EXCEPT !.ran = FALSE]
  /\ UNCHANGED << reader, shadow, windowAllowed, now, env, rateLimits, messages, nextUuid, reqs, placingMessage,
                  pageMessages, lastAllowed, prov, probe, challenges, pow >>

\* ------------------------------------------------------------------------
\* verifyProofOfWork called on its own
\* ------------------------------------------------------------------------
VerifyProof(nonce, solution, difficulty) ==
  /\ pow' = [nonce |-> nonce, solution |-> solution, difficulty |-> difficulty,
             called |-> TRUE,
             result |-> verifyProofOfWork(nonce, solution, difficulty)]
  /\ UNCHANGED << reader, shadow, windowAllowed, challengeTimer, swept, now, env, rateLimits, messages, nextUuid, reqs, out,
                  placingMessage, pageMessages, chk, lastAllowed, prov, probe,
                  challenges, wall >>

\* ------------------------------------------------------------------------
\* The observer starts counting the allowed checks of ip from now on
\* ------------------------------------------------------------------------
StartProbe(ip) ==
  /\ probe = NoProbe
  /\ probe' = [ip |-> ip, start |-> now, count |-> 0]
  /\ out' = NoResponse
  /\ chk' = NoCheck
  /\ wall' = NoWall
  /\ swept' = FALSE
  /\ challengeTimer' = [challengeTimer EXCEPT !.ran = FALSE]
  /\ UNCHANGED << reader, shadow, windowAllowed, challenges, pow, now, env, rateLimits, messages, nextUuid, reqs,
                  placingMessage, pageMessages, lastAllowed, prov >>

\* ------------------------------------------------------------------------
\* Inputs
\* ------------------------------------------------------------------------
Hi == <<" ", "h", "i", " ">>

Nonce1 == <<"n", "1">>

Nonce2 == <<"n", "2">>

Solution5 == <<"5", "3", "9", "6", "3">>

Solution4 == <<"6", "6", "5", "7">>

JsonBody(message, nonce, solution) ==
  [NoBody EXCEPT !.kind = "json", !.message = message, !.nonce = nonce,
                 !.solution = solution]

GoodBody == JsonBody(JsString(Hi), JsString(Nonce2), JsString(Solution5))

BadProofBody == JsonBody(JsString(Hi), JsString(Nonce2), JsString(Solution4))

NoMessageBadProofBody == JsonBody(Undefined, JsString(Nonce2), JsString(Solution4))

LongBody ==
  JsonBody(JsString(Rep("a", MAX_MESSAGE_LENGTH + 1)), JsString(Nonce2),
           JsString(Solution5))

NoProofBody == JsonBody(JsString(Hi), Undefined, Undefined)

GarbageBody == [NoBody EXCEPT !.kind = "garbage"]

\* a message of one space
BlankBody == JsonBody(JsString(<<" ">>), JsString(Nonce2), JsString(Solution5))

\* a message of MAX_MESSAGE_LENGTH - 1 letters followed by two spaces
PaddedBody ==
  JsonBody(JsString(Rep("a", MAX_MESSAGE_LENGTH - 1) \o <<" ", " ">>),
           JsString(Nonce2), JsString(Solution5))

\* a message of two lines
NewlineBody ==
  JsonBody(JsString(<<"a", "\n", "b">>), JsString(Nonce2), JsString(Solution5))

\* a body that also carries a position outside the wall and a color outside
\* the palette
ClientPlacedBody ==
  [GoodBody EXCEPT !.placement =
     [sent |-> TRUE, x |-> 5000, y |-> 0 - 7, color |-> "#000000"]]

Bodies == {GoodBody, BadProofBody, NoMessageBadProofBody, LongBody, NoProofBody,
           GarbageBody}

TextBodies == {GoodBody, BlankBody, PaddedBody, LongBody, ClientPlacedBody}

HeadersA == [forwarded |-> <<"a", "proxy">>, real |-> None]

HeadersB == [forwarded |-> <<>>, real |-> "b"]

HeadersNone == [forwarded |-> <<>>, real |-> None]

RequestOf(headers, body) ==
  [forwarded |-> headers.forwarded, real |-> headers.real, body |-> body]

GateRequests == {RequestOf(HeadersNone, b) : b \in Bodies}

CapRequests == {RequestOf(h, GarbageBody) : h \in {HeadersA, HeadersB}}

WindowRequests == {RequestOf(HeadersA, GarbageBody)}

Randoms == {<<0, 0, 0>>, <<RandomDenom - 1, RandomDenom \div 2, RandomDenom - 1>>}

\* ------------------------------------------------------------------------
\* Specifications
\* ------------------------------------------------------------------------
\* the whole write path, two tasks, two client keys, the page
Next ==
  \/ Tick(COOLDOWN_MS, MaxGateTicks * COOLDOWN_MS)
  \/ RateSweep
  \/ \E s \in Slots, request \in GateRequests : Receive(s, request)
  \/ \E s \in Slots, rnd \in Randoms : HandleBody(s, rnd)
  \/ \E s \in Slots, dbError \in BOOLEAN : InsertDone(s, dbError)
  \/ handleAddMessage(<<" ", "y", "o">>, 0)
  \/ \E id \in {1, 101} : handleCanvasClick(5 * PositionScale, 2999 * PositionScale, id)

Spec == Init /\ [][Next]_vars

\* the deployment whose Supabase environment variables are set
InitConfigured == Init /\ supabase

\* the rate limiter up to the hourly cap, two client keys, one task
NextCap ==
  \/ Tick(COOLDOWN_MS, MaxCapTicks * COOLDOWN_MS)
  \/ RateSweep
  \/ \E request \in CapRequests : Receive(1, request)
  \/ HandleBody(1, <<0, 0, 0>>)

SpecCap == InitConfigured /\ [][NextCap]_vars

\* the rate limiter up to the hourly cap on a half-minute clock, one key
NextRound ==
  \/ \E d \in {30000, COOLDOWN_MS} : Tick(d, MaxRoundTicks * 30000)
  \/ RateSweep
  \/ \E request \in WindowRequests : Receive(1, request)
  \/ HandleBody(1, <<0, 0, 0>>)

SpecRound == InitConfigured /\ [][NextRound]_vars

\* the rate limiter across window resets and sweeps, one key, two tasks
NextWindow ==
  \/ Tick(5 * COOLDOWN_MS, MaxWindowTicks * 5 * COOLDOWN_MS)
  \/ RateSweep
  \/ \E s \in Slots, request \in WindowRequests : Receive(s, request)
  \/ \E s \in Slots : HandleBody(s, <<0, 0, 0>>)

SpecWindow == InitConfigured /\ [][NextWindow]_vars

\* the write path on message texts and client-supplied placements, one task
TextRequests == {RequestOf(HeadersNone, body) : body \in TextBodies}

NextText ==
  \/ Tick(COOLDOWN_MS, MaxGateTicks * COOLDOWN_MS)
  \/ \E request \in TextRequests : Receive(1, request)
  \/ \E rnd \in Randoms : HandleBody(1, rnd)
  \/ \E dbError \in BOOLEAN : InsertDone(1, dbError)

SpecText == Init /\ [][NextText]_vars

\* readers next to writers: one task, two client keys, the page, the
\* rate-limit sweep, and reads of the wall in both formats
WallRequests == {RequestOf(headers, GoodBody) : headers \in {HeadersA, HeadersB}}

LimitParams == {Undefined, JsString(<<"1">>)}

FormatParams == {Undefined, JsString(FormatText)}

NextWall ==
  \/ Tick(COOLDOWN_MS, MaxGateTicks * COOLDOWN_MS)
  \/ RateSweep
  \/ \E request \in WallRequests : Receive(1, request)
  \/ HandleBody(1, <<0, 0, 0>>)
  \/ \E dbError \in BOOLEAN : InsertDone(1, dbError)
  \/ handleAddMessage(<<" ", "y", "o">>, 0)
  \/ handleCanvasClick(5 * PositionScale, 2999 * PositionScale, 101)
  \/ \E limitParam \in LimitParams, formatParam \in FormatParams, dbError \in BOOLEAN :
       GetWall(limitParam, formatParam, dbError)

SpecWall == InitConfigured /\ [][NextWall]_vars

\* concurrent writers and a reader: two tasks with a client key each and
\* default reads of the wall
NextOrder ==
  \/ Tick(COOLDOWN_MS, MaxGateTicks * COOLDOWN_MS)
  \/ \E s \in Slots, request \in WallRequests : Receive(s, request)
  \/ \E s \in Slots : HandleBody(s, <<0, 0, 0>>)
  \/ \E s \in Slots : InsertDone(s, FALSE)
  \/ \E limitParam \in LimitParams : GetWall(limitParam, Undefined, FALSE)

SpecOrder == InitConfigured /\ [][NextOrder]_vars

\* reads of the wall with every kind of limit parameter, next to one writer
AllLimitParams ==
  {Undefined, JsString(<<"0">>), JsString(<<"-", "5">>), JsString(<<"2", "0", "0">>),
   JsString(<<"a", "b", "c">>), JsString(<<"1">>), JsString(<<" ", "2", "x">>)}

NextLimit ==
  \/ Tick(COOLDOWN_MS, MaxGateTicks * COOLDOWN_MS)
  \/ Receive(1, RequestOf(HeadersNone, GoodBody))
  \/ HandleBody(1, <<0, 0, 0>>)
  \/ InsertDone(1, FALSE)
  \/ \E limitParam \in AllLimitParams, dbError \in BOOLEAN :
       GetWall(limitParam, Undefined, dbError)

SpecLimit == InitConfigured /\ [][NextLimit]_vars

\* text reads of the wall next to one writer of one-line and two-line
\* messages
RenderRequests == {RequestOf(HeadersNone, body) : body \in {GoodBody, NewlineBody}}

NextRender ==
  \/ Tick(COOLDOWN_MS, MaxGateTicks * COOLDOWN_MS)
  \/ \E request \in RenderRequests : Receive(1, request)
  \/ \E rnd \in Randoms : HandleBody(1, rnd)
  \/ InsertDone(1, FALSE)
  \/ \E limitParam \in LimitParams : GetWall(limitParam, JsString(FormatText), FALSE)

SpecRender == InitConfigured /\ [][NextRender]_vars

\* a page that loads the wall and subscribes, next to one writer with two
\* client keys
NextReader ==
  \/ \E request \in WallRequests : Receive(1, request)
  \/ HandleBody(1, <<0, 0, 0>>)
  \/ InsertDone(1, FALSE)
  \/ useEffect
  \/ \E dbError \in BOOLEAN : fetchMessagesQuery(dbError)
  \/ fetchMessagesDone
  \/ channelJoined
  \/ onInsert

SpecReader == InitConfigured /\ [][NextReader]_vars

\* verifyProofOfWork alone: every way of cutting a hashed string into a
\* nonce and a solution, and every difficulty up to MaxDifficulty, the
\* digest length and one more
HashedStrings == {Str_n2_53963, Str_n1_863167, Str_n2_6657, Str_n1_0}

ProofInputs ==
  UNION { {<<SubSeq(str, 1, k), SubSeq(str, k + 1, Len(str))>> : k \in 0..Len(str)} :
          str \in HashedStrings }

Difficulties == (0..MaxDifficulty) \cup {64, 65}

NextPow ==
  \E input \in ProofInputs, difficulty \in Difficulties :
    VerifyProof(input[1], input[2], difficulty)

SpecPow == InitConfigured /\ [][NextPow]_vars

\* the gateway next to the challenge route: challenges are issued, expire
\* and are swept while requests with issued and with unissued nonces arrive
ChallengeTick == 2 * COOLDOWN_MS

ChallengeRequests ==
  {RequestOf(HeadersNone, body) : body \in {GoodBody, BadProofBody}}

NextChallenge ==
  \/ Tick(ChallengeTick, MaxChallengeTicks * ChallengeTick)
  \/ \E nonce \in {Nonce1, Nonce2} : GetChallenge(nonce)
  \/ ChallengeSweep
  \/ \E request \in ChallengeRequests : Receive(1, request)
  \/ HandleBody(1, <<0, 0, 0>>)
  \/ \E dbError \in BOOLEAN : InsertDone(1, dbError)

SpecChallenge == InitConfigured /\ [][NextChallenge]_vars

\* the challenge route under its timer: the sweep runs every
\* CHALLENGE_SWEEP_MS, the clock advances in steps of TimerStep and not
\* past a run that is due, challenges are issued until IssueUntil
TimerStep == CHALLENGE_SWEEP_MS \div 3

IssueUntil == MaxIssueTicks * TimerStep

TimerHorizon == IssueUntil + CHALLENGE_TTL_MS + 2 * CHALLENGE_SWEEP_MS

SweepDue == challengeTimer.last + CHALLENGE_SWEEP_MS

TimerTick ==
  /\ now + TimerStep <= SweepDue
  /\ Tick(TimerStep, TimerHorizon)

TimerSweep ==
  /\ now = SweepDue
  /\ ChallengeSweep

TimerIssue(nonce) ==
  /\ now <= IssueUntil
  /\ GetChallenge(nonce)

NextTimer ==
  \/ TimerTick
  \/ TimerSweep
  \/ \E nonce \in {Nonce1, Nonce2} : TimerIssue(nonce)

SpecTimer ==
  /\ InitConfigured
  /\ [][NextTimer]_vars
  /\ WF_vars(TimerTick)
  /\ WF_vars(TimerSweep)

\* the challenge route on the instants around the expiry of a challenge,
\* next to the write path: one task, one key
ExpiryInstants ==
  {COOLDOWN_MS, CHALLENGE_TTL_MS, CHALLENGE_TTL_MS + 1,
   CHALLENGE_TTL_MS + COOLDOWN_MS, CHALLENGE_TTL_MS + COOLDOWN_MS + 1}

NextExpiry ==
  \/ \E t \in ExpiryInstants : TickTo(t)
  \/ \E nonce \in {Nonce1, Nonce2} : GetChallenge(nonce)
  \/ ChallengeSweep
  \/ Receive(1, RequestOf(HeadersNone, GoodBody))
  \/ HandleBody(1, <<0, 0, 0>>)
  \/ InsertDone(1, FALSE)

SpecExpiry == InitConfigured /\ [][NextExpiry]_vars

\* the rate limiter on the instants around the end of a cooldown, at the
\* cap and at the end of a window, one key, one task
CoolInstants ==
  {1, 59001, 59999, 540500, WINDOW_MS, WINDOW_MS + 1}
    \cup {k * COOLDOWN_MS : k \in 1..(MAX_POSTS_PER_HOUR - 1)}

NextCool ==
  \/ \E t \in CoolInstants : TickTo(t)
  \/ RateSweep
  \/ \E request \in WindowRequests : Receive(1, request)
  \/ HandleBody(1, <<0, 0, 0>>)

SpecCool == InitConfigured /\ [][NextCool]_vars

\* the rate limiter and its sweep on the instants around the end of a
\* window and of the hour after a post, two keys, one task
SweepInstants ==
  {WINDOW_MS \div 2, WINDOW_MS, WINDOW_MS + 1, WINDOW_MS + WINDOW_MS \div 2,
   WINDOW_MS + WINDOW_MS \div 2 + 1, 2 * WINDOW_MS + 1}

NextSweep ==
  \/ \E t \in SweepInstants : TickTo(t)
  \/ RateSweep
  \/ \E request \in CapRequests : Receive(1, request)
  \/ HandleBody(1, <<0, 0, 0>>)

SpecSweep == InitConfigured /\ [][NextSweep]_vars

\* the same with the observer of one rolling hour
NextRolling ==
  \/ Tick(5 * COOLDOWN_MS, MaxWindowTicks * 5 * COOLDOWN_MS)
  \/ RateSweep
  \/ \E request \in WindowRequests : Receive(1, request)
  \/ HandleBody(1, <<0, 0, 0>>)
  \/ StartProbe("a")

SpecRolling == InitConfigured /\ [][NextRolling]_vars

\* ------------------------------------------------------------------------
\* Vocabulary of the properties
\* ------------------------------------------------------------------------
\* the number of leading '0' characters of a hex digest
RECURSIVE LeadingZeros(_)
LeadingZeros(hex) ==
  IF hex # <<>> /\ Head(hex) = "0" THEN 1 + LeadingZeros(Tail(hex)) ELSE 0

\* the body parses and carries a non-empty message of at most 280
\* characters, a nonce and a solution
FieldsValid(body) ==
  /\ body.kind = "json"
  /\ body.message.t = "string"
  /\ Len(body.message.v) \in 1..MAX_MESSAGE_LENGTH
  /\ body.nonce.t # "undefined" /\ body.nonce.v # <<>>
  /\ body.solution.t # "undefined" /\ body.solution.v # <<>>

\* the digest of nonce followed by solution has the required leading zeros
ProofValid(body) ==
  LeadingZeros(SHA256Hex(body.nonce.v \o body.solution.v)) >= DIFFICULTY

GateOrder == <<"rate", "validate", "pow", "persist">>

\* the first gate at which a request with this rate-limit result and body fails
\* ("persist" when it fails at none of the first three)
FirstFailingGate(allowed, body) ==
  IF ~allowed THEN "rate"
  ELSE IF ~FieldsValid(body) THEN "validate"
  ELSE IF ~ProofValid(body) THEN "pow"
  ELSE "persist"

\* the gate a response speaks for
ResponseGate(o) ==
  IF o.status = 429 THEN "rate"
  ELSE IF o.status = 400 /\ o.error = "Invalid proof of work" THEN "pow"
  ELSE IF o.status = 400 THEN "validate"
  ELSE "persist"

NotConfigured(o) == o.status = 500 /\ o.error = "Database not configured"

RejectedResponse(o) == o.status \in {400, 429} \/ NotConfigured(o)

\* the least number of whole minutes that is at least ms
MinutesRoundedUp(ms) ==
  CHOOSE m \in 0..61 : m * 60000 >= ms /\ (m = 0 \/ (m - 1) * 60000 < ms)

\* the latest step made a rate-limit check
Checked(c) == c.ip # None

\* ------------------------------------------------------------------------
\* C1: a step that answers 400, 429 or 500 "not configured" leaves the
\* messages table as it was, and a row added by POST is added in the step
\* that answers 200 to a request the rate limiter allowed, whose fields are
\* valid and whose proof of work verifies.
\* ------------------------------------------------------------------------
C1_RejectedNeverReachesStore ==
  [][ /\ RejectedResponse(out') => messages' = messages
      /\ ( /\ messages' # messages
           /\ prov'[messages'[Len(messages')].id].via = "POST" )
         => /\ out'.status = 200
            /\ out'.allowed
            /\ FieldsValid(out'.body)
            /\ ProofValid(out'.body) ]_vars

\* a proof-of-work rejection sent while the table holds a row
W_C1 ==
  /\ out.status = 400
  /\ out.error = "Invalid proof of work"
  /\ Len(messages) >= 1
  /\ prov[messages[1].id].via = "POST"

\* ------------------------------------------------------------------------
\* C2: every response is that of the first failing gate in the order rate
\* limit, field validation, proof of work, persistence, and the gates the
\* request went through are exactly the gates up to that one (the store is
\* not called when it is not configured).
\* ------------------------------------------------------------------------
C2_FirstFailingGateAnswers ==
  out.status # 0 =>
    LET n == Len(out.trace) IN
    /\ ResponseGate(out) = FirstFailingGate(out.allowed, out.body)
    /\ n >= 1
    /\ out.trace = SubSeq(GateOrder, 1, n)
    /\ IF NotConfigured(out) THEN n = 3 ELSE GateOrder[n] = ResponseGate(out)

\* a request with an invalid message and an invalid proof answered
W_C2 ==
  /\ out.status = 400
  /\ out.body = NoMessageBadProofBody

\* ------------------------------------------------------------------------
\* C3: every row of the messages table was inserted by POST /wall, which
\* assigns the id and a position inside the canvas bounds.
\* ------------------------------------------------------------------------
C3_OnlyGatewayWrites ==
  \A i \in 1..Len(messages) :
    /\ prov[messages[i].id].via = "POST"
    /\ messages[i].x >= POSITION_MIN * PositionScale
    /\ messages[i].x <= (POSITION_MIN + POSITION_SPAN) * PositionScale

\* ------------------------------------------------------------------------
\* C4: an allowed check of a key comes at least the cooldown after the
\* previous allowed check of that key, and lastPost strictly increases.
\* ------------------------------------------------------------------------
C4_AllowedChecksCooldownApart ==
  [][ (Checked(chk') /\ chk'.allowed) =>
        /\ chk'.ip \in DOMAIN lastAllowed =>
             /\ now' - lastAllowed[chk'.ip] >= COOLDOWN_MS
             /\ rateLimits'[chk'.ip].lastPost > lastAllowed[chk'.ip]
        /\ chk'.ip \in DOMAIN rateLimits =>
             rateLimits'[chk'.ip].lastPost > rateLimits[chk'.ip].lastPost ]_vars

\* a second allowed check of a key while both tasks are in flight
W_C4 ==
  /\ Checked(chk) /\ chk.allowed /\ chk.had
  /\ reqs[1].pc = "json" /\ reqs[2].pc = "json"
  /\ reqs[1].ip = reqs[2].ip

\* ------------------------------------------------------------------------
\* C5: in any interval of WINDOW_MS at most MAX_POSTS_PER_HOUR checks of
\* one key are allowed.
\* ------------------------------------------------------------------------
C5_RollingHourCap == probe.count <= MAX_POSTS_PER_HOUR

\* ------------------------------------------------------------------------
\* C6: every rate-limit record has count at most MAX_POSTS_PER_HOUR.
\* ------------------------------------------------------------------------
C6_CountAtMostCap ==
  \A ip \in DOMAIN rateLimits : rateLimits[ip].count <= MAX_POSTS_PER_HOUR

\* a record at the cap
W_C6 == \E ip \in DOMAIN rateLimits : rateLimits[ip].count = MAX_POSTS_PER_HOUR

\* ------------------------------------------------------------------------
\* C7: a check of a key whose count is MAX_POSTS_PER_HOUR, with the cooldown
\* over and now not later than resetAt, is denied for the hourly cap with
\* retryAfter = 60 * (minutes from now to resetAt, rounded up), and the 429
\* response carries that value.
\* ------------------------------------------------------------------------
C7_EleventhCheckDenied ==
  [][ ( /\ Checked(chk')
        /\ chk'.ip \in DOMAIN rateLimits
        /\ rateLimits[chk'.ip].count = MAX_POSTS_PER_HOUR
        /\ now - rateLimits[chk'.ip].lastPost >= COOLDOWN_MS
        /\ now <= rateLimits[chk'.ip].resetAt )
      => /\ ~chk'.allowed
         /\ chk'.error.kind = "hourly"
         /\ chk'.retryAfter = MinutesRoundedUp(rateLimits[chk'.ip].resetAt - now) * 60
         /\ out'.status = 429
         /\ out'.retry_after_seconds = chk'.retryAfter ]_vars

\* an hourly-cap denial a fraction of a minute away from resetAt
W_C7 ==
  /\ Checked(chk) /\ chk.had /\ ~chk.allowed
  /\ chk.error.kind = "hourly"
  /\ chk.prior.count = MAX_POSTS_PER_HOUR
  /\ (chk.prior.resetAt - now) % 60000 # 0

\* ------------------------------------------------------------------------
\* C8: a denied check leaves the whole rate-limit store unchanged.
\* ------------------------------------------------------------------------
C8_DeniedLeavesStore ==
  [][ (Checked(chk') /\ ~chk'.allowed) => rateLimits' = rateLimits ]_vars

\* an hourly-cap denial while another key has a record
W_C8 ==
  /\ Checked(chk) /\ ~chk.allowed
  /\ chk.error.kind = "hourly"
  /\ Cardinality(DOMAIN rateLimits) = 2

\* ------------------------------------------------------------------------
\* C9: a check of a key without a record is allowed and creates
\* {count: 1, resetAt: now + WINDOW_MS, lastPost: now}; the records of the
\* other keys stay.
\* ------------------------------------------------------------------------
C9_FirstCheckCreatesRecord ==
  [][ (Checked(chk') /\ chk'.ip \notin DOMAIN rateLimits) =>
        /\ chk'.allowed
        /\ DOMAIN rateLimits' = (DOMAIN rateLimits) \cup {chk'.ip}
        /\ rateLimits'[chk'.ip] =
             [count |-> 1, resetAt |-> now + WINDOW_MS, lastPost |-> now]
        /\ \A k \in DOMAIN rateLimits : rateLimits'[k] = rateLimits[k] ]_vars

\* a first check of one key while the other key has a record
W_C9 ==
  /\ Checked(chk) /\ ~chk.had /\ chk.allowed
  /\ Cardinality(DOMAIN rateLimits) = 2

\* ------------------------------------------------------------------------
\* C10: a check of an existing key with the cooldown over and now later than
\* resetAt is allowed and leaves {count: 1, resetAt: now + WINDOW_MS,
\* lastPost: now}; resetAt of a record changes in no other step.
\* ------------------------------------------------------------------------
C10_ExpiredWindowRollsForward ==
  [][ /\ ( /\ Checked(chk')
           /\ chk'.ip \in DOMAIN rateLimits
           /\ now - rateLimits[chk'.ip].lastPost >= COOLDOWN_MS
           /\ now > rateLimits[chk'.ip].resetAt )
         => /\ chk'.allowed
            /\ rateLimits'[chk'.ip] =
                 [count |-> 1, resetAt |-> now + WINDOW_MS, lastPost |-> now]
      /\ \A k \in (DOMAIN rateLimits) \cap (DOMAIN rateLimits') :
           rateLimits'[k].resetAt # rateLimits[k].resetAt
           => /\ Checked(chk') /\ chk'.ip = k /\ chk'.allowed
              /\ now > rateLimits[k].resetAt ]_vars

\* a window that was at the cap is rolled forward
W_C10 ==
  /\ Checked(chk) /\ chk.had /\ chk.allowed
  /\ chk.prior.count = MAX_POSTS_PER_HOUR
  /\ now > chk.prior.resetAt

\* ------------------------------------------------------------------------
\* C11: a check of an existing key less than COOLDOWN_MS after its lastPost
\* is denied for the cooldown with retryAfter = the remaining cooldown in
\* seconds, rounded up (1 to 60), whatever its count and resetAt are.
\* ------------------------------------------------------------------------
\* the least number of whole seconds that is at least ms
SecondsRoundedUp(ms) ==
  CHOOSE n \in 0..61 : n * 1000 >= ms /\ (n = 0 \/ (n - 1) * 1000 < ms)

C11_CooldownDeniedFirst ==
  [][ ( /\ Checked(chk')
        /\ chk'.ip \in DOMAIN rateLimits
        /\ now - rateLimits[chk'.ip].lastPost < COOLDOWN_MS )
      => /\ ~chk'.allowed
         /\ chk'.error.kind = "cooldown"
         /\ chk'.retryAfter =
              SecondsRoundedUp(COOLDOWN_MS - (now - rateLimits[chk'.ip].lastPost))
         /\ chk'.retryAfter \in 1..60
         /\ out'.status = 429
         /\ out'.retry_after_seconds = chk'.retryAfter ]_vars

\* a cooldown denial of a key whose window has expired, a fraction of a
\* second before the cooldown ends
W_C11 ==
  /\ Checked(chk) /\ chk.had /\ ~chk.allowed
  /\ chk.error.kind = "cooldown"
  /\ now > chk.prior.resetAt
  /\ (COOLDOWN_MS - (now - chk.prior.lastPost)) % 1000 # 0

\* a cooldown denial of a key that is at the cap
W_C11_AtCap ==
  /\ Checked(chk) /\ chk.had /\ ~chk.allowed
  /\ chk.error.kind = "cooldown"
  /\ chk.prior.count = MAX_POSTS_PER_HOUR

\* ------------------------------------------------------------------------
\* C12: POST /wall neither reads nor changes the live-challenge set: no step
\* of a POST request changes challenges, and an allowed request with valid
\* fields is answered 400 exactly when the digest predicate fails, whether
\* its nonce was issued, has expired, was swept or was used before.
\* ------------------------------------------------------------------------
PostStep == chk' # NoCheck \/ out' # NoResponse \/ reqs' # reqs

C12_PostIgnoresChallenges ==
  [][ /\ PostStep => challenges' = challenges
      /\ ( /\ out' # NoResponse
            /\ out'.allowed
            /\ FieldsValid(out'.body) )
         => /\ (out'.status = 400) <=> ~ProofValid(out'.body)
            /\ (out'.status \in {200, 500}) <=> ProofValid(out'.body) ]_vars

\* the rows written by POST
PostRows == {id \in DOMAIN prov : prov[id].via = "POST"}

\* a post is accepted with a nonce that is not in the challenge set while
\* another challenge is live, and with a (nonce, solution) pair that an
\* earlier accepted post already used
W_C12 ==
  /\ out.status = 200
  /\ out.body.nonce.v \notin DOMAIN challenges
  /\ challenges # EmptyMap
  /\ \E id \in PostRows :
        /\ id # out.data.id
        /\ prov[id].body.nonce = out.body.nonce
        /\ prov[id].body.solution = out.body.solution

\* a post is accepted with a nonce whose challenge has expired
W_C12_Expired ==
  /\ out.status = 200
  /\ out.body.nonce.v \in DOMAIN challenges
  /\ challenges[out.body.nonce.v].expires < now

\* ------------------------------------------------------------------------
\* C13: verifyProofOfWork(n, s, d) is true exactly when the first d
\* characters of the hex digest of n followed by s are all '0', and the call
\* changes no state of the program.
\* ------------------------------------------------------------------------
FirstAllZero(hex, d) ==
  /\ d <= Len(hex)
  /\ \A i \in 1..d : hex[i] = "0"

C13_VerifyIffLeadingZeros ==
  [][ pow' # pow
      => /\ pow'.called
         /\ pow'.result
              = FirstAllZero(SHA256Hex(pow'.nonce \o pow'.solution), pow'.difficulty)
         /\ UNCHANGED << now, env, rateLimits, messages, nextUuid, reqs,
                         challenges, placingMessage, pageMessages >> ]_vars

\* a call that is true at the difficulty of the wall route
W_C13 ==
  /\ pow.called /\ pow.result
  /\ pow.difficulty = DIFFICULTY
  /\ pow.nonce # <<>> /\ pow.solution # <<>>

\* a call that is false although the digest starts with '0'
W_C13_False ==
  /\ pow.called /\ ~pow.result
  /\ Head(SHA256Hex(pow.nonce \o pow.solution)) = "0"

\* ------------------------------------------------------------------------
\* C14: if verifyProofOfWork(n, s, d) is true, then verifyProofOfWork(n, s, d')
\* is true for every d' from 0 to d.
\* ------------------------------------------------------------------------
C14_VerifyMonotone ==
  (pow.called /\ pow.result)
    => \A d \in 0..pow.difficulty :
         verifyProofOfWork(pow.nonce, pow.solution, d)

\* a call that is true at a difficulty of at least DIFFICULTY + 1
W_C14 ==
  /\ pow.called /\ pow.result
  /\ pow.difficulty > DIFFICULTY

\* ------------------------------------------------------------------------
\* C15: message validation is decided on the trimmed text: a request that
\* passed the rate limit (and carries a valid proof) is answered 400 exactly
\* when its trimmed message is empty or longer than 280, and every row
\* written by POST holds the trimmed submitted text, non-empty, at most 280.
\* ------------------------------------------------------------------------
TrimmedMessage(body) ==
  IF body.message.t = "string" THEN Trim(body.message.v) ELSE <<>>

RowOf(id) == CHOOSE m \in {messages[i] : i \in 1..Len(messages)} : m.id = id

C15_ValidationOnTrimmedText ==
  /\ \A id \in PostRows :
        /\ RowOf(id).text = TrimmedMessage(prov[id].body)
        /\ Len(RowOf(id).text) \in 1..MAX_MESSAGE_LENGTH
  /\ ( /\ out # NoResponse
        /\ out.allowed
        /\ out.body.kind = "json"
        /\ ~Falsy(out.body.nonce) /\ ~Falsy(out.body.solution)
        /\ ProofValid(out.body) )
     => ( (out.status = 400)
            <=> Len(TrimmedMessage(out.body)) \notin 1..MAX_MESSAGE_LENGTH )

\* the two parts of C15 apart: the stored text, the validation response
C15_StoredTextNonEmpty ==
  \A id \in PostRows : Len(RowOf(id).text) \in 1..MAX_MESSAGE_LENGTH

C15_PaddedMessageAccepted ==
  (out # NoResponse /\ out.allowed /\ out.body = PaddedBody) => out.status # 400

\* ------------------------------------------------------------------------
\* C16: every row written by POST has x and y inside [200, 2800] and a color
\* of the palette, whatever position and color the request body carries.
\* ------------------------------------------------------------------------
InsideWall(p) ==
  /\ p >= POSITION_MIN * PositionScale
  /\ p <= (POSITION_MIN + POSITION_SPAN) * PositionScale

Palette == {COLORS[i] : i \in 1..Len(COLORS)}

C16_ServerAssignedPlacement ==
  \A id \in PostRows :
    /\ InsideWall(RowOf(id).x)
    /\ InsideWall(RowOf(id).y)
    /\ RowOf(id).color \in Palette
    /\ Cardinality(Palette) = 10

\* a row written for a request that carried a position and a color of its
\* own, placed at the largest random draw
W_C16 ==
  \E id \in PostRows :
    /\ prov[id].body.placement.sent
    /\ ~InsideWall(prov[id].body.placement.x * PositionScale)
    /\ prov[id].body.placement.color \notin Palette
    /\ RowOf(id).x > 2797 * PositionScale

\* ------------------------------------------------------------------------
\* C17: the wall is append-only: every step (request, sweep, read, page
\* insert) leaves each persisted row in the table with the same id, text,
\* position, color and created_at.
\* ------------------------------------------------------------------------
Rows(table) == {table[i] : i \in 1..Len(table)}

C17_AppendOnly ==
  [][ /\ Rows(messages) \subseteq Rows(messages')
      /\ Len(messages') >= Len(messages) ]_vars

\* a read that returns two rows, one written by POST and one by the page
W_C17 ==
  /\ wall.status = 200 /\ wall.count = 2
  /\ \E id \in DOMAIN prov : prov[id].via = "POST"
  /\ \E id \in DOMAIN prov : prov[id].via = "page"

\* ------------------------------------------------------------------------
\* C18: rows become visible to reads in the order their inserts complete:
\* a default read of a table written by POST alone lists the rows from the
\* latest completed insert back, without skipping one.
\* ------------------------------------------------------------------------
C18_VisibleInCompletionOrder ==
  ( /\ wall.status = 200 /\ wall.format = "json"
    /\ \A id \in DOMAIN prov : prov[id].via = "POST" )
  => \A k \in 1..Len(wall.messages) :
       wall.messages[k].id = messages[Len(messages) - k + 1].id

\* the same for tables whose rows have different created_at values
C18_VisibleInCompletionOrderNoTies ==
  ( /\ wall.status = 200 /\ wall.format = "json"
    /\ \A id \in DOMAIN prov : prov[id].via = "POST"
    /\ \A i, j \in 1..Len(messages) :
          i # j => messages[i].created_at # messages[j].created_at )
  => \A k \in 1..Len(wall.messages) :
       wall.messages[k].id = messages[Len(messages) - k + 1].id

\* ------------------------------------------------------------------------
\* C19: a POST request ends in the one step that answers it, with status
\* 200, 400, 429 or 500: 429 exactly for a rate-limit denial, 400 exactly for
\* an allowed request with an unparseable body, a missing or invalid field or
\* a proof-of-work mismatch, 500 for an unconfigured store or a failed
\* insert; a non-200 answer has success false and an error, a 429 has
\* retry_after_seconds, and a failed request is dropped, not run again.
\* ------------------------------------------------------------------------
\* the step ends the request of task s
Ends(s) == reqs[s].pc # "idle" /\ reqs'[s] = Idle

\* the step denies a request at the rate limiter, before it occupies a task
DeniedAtOnce == Checked(chk') /\ ~chk'.allowed /\ reqs' = reqs

C19_OneStructuredResponse ==
  [][ /\ out' # NoResponse
         => /\ out'.status \in {200, 400, 429, 500}
            /\ (out'.status = 429) <=> ~out'.allowed
            /\ out'.allowed
                 => ( (out'.status = 400)
                        <=> FirstFailingGate(TRUE, out'.body) \in {"validate", "pow"} )
            /\ out'.status = 500
                 => IF supabase THEN out'.error = "Failed to save message"
                    ELSE out'.error = "Database not configured"
            /\ out'.success <=> out'.status = 200
            /\ out'.status = 429
                 => /\ out'.error.kind \in {"cooldown", "hourly"}
                    /\ out'.retry_after_seconds \in 0..(WINDOW_MS \div 1000)
            /\ out'.status \in {400, 500} => out'.error # None
            /\ out'.status # 200 => messages' = messages
            /\ \/ DeniedAtOnce
               \/ \E s \in Slots :
                    /\ Ends(s)
                    /\ out'.ip = reqs[s].ip /\ out'.body = reqs[s].body
                    /\ \A other \in Slots \ {s} : reqs'[other] = reqs[other]
      /\ \A s \in Slots :
           /\ (reqs[s].pc # "idle" /\ reqs'[s].pc = "idle") => out' # NoResponse
           /\ (reqs[s].pc # "idle" /\ reqs'[s].pc # "idle")
                => /\ out' = NoResponse \/ ~Ends(s)
                   /\ reqs'[s].body = reqs[s].body
      /\ (Checked(chk') /\ ~chk'.allowed) => out'.status = 429 ]_vars

\* a failed insert answered 500 while the other task still runs its request
W_C19 ==
  /\ out.status = 500
  /\ out.error = "Failed to save message"
  /\ \E s \in Slots : reqs[s].pc # "idle"

\* ------------------------------------------------------------------------
\* C20: a run of the rate-limit sweep at time now removes exactly the
\* records with resetAt < now and lastPost < now - 3600 s, and leaves every
\* other record in the store with the same fields.
\* ------------------------------------------------------------------------
C20_SweepEvictsExactly ==
  [][ swept'
      => /\ DOMAIN rateLimits' \subseteq DOMAIN rateLimits
         /\ \A ip \in DOMAIN rateLimits :
              IF /\ rateLimits[ip].resetAt < now
                 /\ rateLimits[ip].lastPost < now - 3600 * 1000
              THEN ip \notin DOMAIN rateLimits'
              ELSE /\ ip \in DOMAIN rateLimits'
                   /\ rateLimits'[ip] = rateLimits[ip] ]_vars

\* after a sweep, one key's record is gone and another key's record, whose
\* window has expired but whose last post is less than an hour old, is kept
W_C20 ==
  /\ swept
  /\ \E gone \in DOMAIN lastAllowed : gone \notin DOMAIN rateLimits
  /\ \E kept \in DOMAIN rateLimits :
        /\ rateLimits[kept].resetAt < now
        /\ rateLimits[kept].lastPost >= now - 3600 * 1000

\* ------------------------------------------------------------------------
\* C21: a run of the challenge sweep at time now removes exactly the stored
\* challenges with expires < now, leaves every other challenge as it was,
\* and changes neither the rate-limit store, the messages table nor a
\* request in flight.
\* ------------------------------------------------------------------------
C21_ChallengeSweepExact ==
  [][ challengeTimer'.ran
      => /\ DOMAIN challenges' \subseteq DOMAIN challenges
         /\ \A key \in DOMAIN challenges :
              IF challenges[key].expires < now
              THEN key \notin DOMAIN challenges'
              ELSE /\ key \in DOMAIN challenges'
                   /\ challenges'[key] = challenges[key]
         /\ UNCHANGED << rateLimits, messages, reqs, nextUuid >> ]_vars

\* after a sweep that ran while a request awaited its insert, a challenge
\* that expires exactly now is still stored and another one is gone
W_C21 ==
  /\ challengeTimer.ran
  /\ \E key \in DOMAIN challenges : challenges[key].expires = now
  /\ Cardinality(DOMAIN challenges) = 1
  /\ now > CHALLENGE_TTL_MS
  /\ reqs[1].pc = "insert"

\* ------------------------------------------------------------------------
\* C22: a challenge is stored with expires = issue time + 300 s; under the
\* sweep timer it is never in the store more than one sweep period after
\* its expiry, a sweep that finds it expired removes it, and once issuance
\* has stopped the store becomes and stays empty.
\* ------------------------------------------------------------------------
Issued(key) ==
  /\ ~challengeTimer'.ran
  /\ key \in DOMAIN challenges'
  /\ key \notin DOMAIN challenges \/ challenges'[key] # challenges[key]

C22_ChallengesExpireAndLeave ==
  /\ [][ \A key \in {Nonce1, Nonce2} :
           Issued(key) => challenges'[key].expires = now + 300 * 1000 ]_vars
  /\ [][ challengeTimer'.ran
         => \A key \in DOMAIN challenges :
              challenges[key].expires < now => key \notin DOMAIN challenges' ]_vars
  /\ [](\A key \in DOMAIN challenges :
          now <= challenges[key].expires + CHALLENGE_SWEEP_MS)
  /\ <>[](challenges = EmptyMap)

\* a challenge that is still stored one whole sweep period after its expiry,
\* just before the sweep that is due removes it
W_C22 ==
  /\ \E key \in DOMAIN challenges :
        now = challenges[key].expires + CHALLENGE_SWEEP_MS
  /\ now = SweepDue

\* ------------------------------------------------------------------------
\* C23: whatever the limit parameter of GET /wall is, the limit passed to
\* the query is a number in 1..100 (50 when the parameter is absent) and
\* the response holds at most that many messages.
\* ------------------------------------------------------------------------
C23_LimitClamped ==
  wall.queried
    => /\ ~wall.limit.nan
       /\ wall.limit.v \in 1..100
       /\ wall.param.t = "undefined" => wall.limit.v = 50
       /\ wall.status = 200 => Len(wall.rows) <= wall.limit.v

\* the parts of C23 apart: the upper clamp and the default, the lower
\* clamp, the parameter that is not a number
C23_UpperClampAndDefault ==
  wall.queried
    => /\ wall.limit.nan \/ wall.limit.v <= 100
       /\ wall.param.t = "undefined" => wall.limit = Number(50)
       /\ wall.param = JsString(<<"2", "0", "0">>) => wall.limit = Number(100)

C23_LowerClamp == (wall.queried /\ ~wall.limit.nan) => wall.limit.v >= 1

C23_LimitIsNumber == wall.queried => ~wall.limit.nan

\* ------------------------------------------------------------------------
\* C24: the text rendering of GET /wall is the placeholder line when the
\* query gives no message, and otherwise has exactly one line for each
\* message of the result, line i being [i] "text" (at round(x), round(y))
\* of the i-th message.
\* ------------------------------------------------------------------------
\* the lines of a text: its parts between line feeds
RECURSIVE Lines(_)
Lines(text) ==
  IF \E k \in 1..Len(text) : text[k] = "\n"
  THEN LET k == CHOOSE k \in 1..Len(text) :
                  text[k] = "\n" /\ \A j \in 1..(k - 1) : text[j] # "\n"
       IN <<SubSeq(text, 1, k - 1)>> \o Lines(SubSeq(text, k + 1, Len(text)))
  ELSE <<text>>

TextRendered == wall.status = 200 /\ wall.format = "text"

C24_TextRendering ==
  TextRendered
    => IF wall.rows = <<>>
       THEN wall.text = WallIsEmpty
       ELSE Lines(wall.text) = [i \in 1..Len(wall.rows) |-> TextLine(wall.rows[i], i)]

\* the parts of C24 apart: the placeholder, and the rendering of results
\* whose texts have no line feed
C24_Placeholder == (TextRendered /\ wall.rows = <<>>) => wall.text = WallIsEmpty

C24_OneLineTexts ==
  (TextRendered /\ wall.rows # <<>>
     /\ \A i \in 1..Len(wall.rows) : Lines(wall.rows[i].text) = <<wall.rows[i].text>>)
    => Lines(wall.text) = [i \in 1..Len(wall.rows) |-> TextLine(wall.rows[i], i)]

\* ------------------------------------------------------------------------
\* C25: for every client key and every interleaving of the requests in
\* flight, the count of the key's record is the number of its checks that
\* were allowed since its window was opened (by the creation of the record
\* or by a reset of the window).
\* ------------------------------------------------------------------------
C25_NoLostUpdate ==
  \A ip \in DOMAIN rateLimits :
    /\ ip \in DOMAIN windowAllowed
    /\ rateLimits[ip].count = windowAllowed[ip]

\* two requests of one key in flight, both counted, after the clock has
\* passed the end of the key's first window
W_C25 ==
  /\ reqs[1].pc # "idle" /\ reqs[2].pc # "idle"
  /\ reqs[1].ip = reqs[2].ip
  /\ reqs[1].ip \in DOMAIN rateLimits
  /\ rateLimits[reqs[1].ip].count = 2
  /\ windowAllowed[reqs[1].ip] = 2
  /\ now > WINDOW_MS

\* ------------------------------------------------------------------------
\* C26: the sweep of rateLimits is invisible to clients: every check gives
\* the result (allowed or denied, with the same error and retry value) that
\* it would give had no sweep ever run, and the record held after an
\* allowed check is the same in both; a record that the sweep may evict is
\* one on which the next check is allowed and leaves the record of a first
\* check.
\* ------------------------------------------------------------------------
C26_SweepInvisible ==
  /\ chk.ip # None
       => /\ chk.allowed = chk.unswept.allowed
          /\ chk.error = chk.unswept.error
          /\ chk.retryAfter = chk.unswept.retryAfter
          /\ chk.allowed => rateLimits[chk.ip] = shadow[chk.ip]
  /\ \A ip \in DOMAIN rateLimits :
       SweepEvicts(rateLimits[ip], now)
         => LET next == checkRateLimit(ip, now, rateLimits)
            IN next.allowed /\ next.store[ip] = NewRecord(now)

\* a check of a key whose record a sweep has evicted: allowed, and the
\* record is the one the check would have left on the evicted record
W_C26 ==
  /\ chk.ip # None
  /\ chk.allowed
  /\ ~chk.had
  /\ chk.unswept.had
  /\ rateLimits[chk.ip] = NewRecord(now)

\* ------------------------------------------------------------------------
\* C27: in every reachable state every record of rateLimits has
\* count >= 1 and resetAt - 3600 s <= lastPost <= resetAt; so the sweep's
\* condition lastPost < now - 3600 s already implies resetAt < now.
\* ------------------------------------------------------------------------
C27_RecordInvariant ==
  \A ip \in DOMAIN rateLimits :
    LET data == rateLimits[ip]
    IN /\ data.count >= 1
       /\ data.resetAt - 3600 * 1000 <= data.lastPost
       /\ data.lastPost <= data.resetAt
       /\ data.lastPost < now - 3600 * 1000 => data.resetAt < now
       /\ SweepEvicts(data, now) <=> data.lastPost < now - 3600 * 1000

\* a record whose last post is at the very end of its window, at an
\* instant when the sweep's condition on lastPost holds
W_C27 ==
  \E ip \in DOMAIN rateLimits :
    /\ rateLimits[ip].count >= 2
    /\ rateLimits[ip].lastPost = rateLimits[ip].resetAt
    /\ rateLimits[ip].lastPost < now - 3600 * 1000

\* ------------------------------------------------------------------------
\* C28: a POST that the rate limiter allowed and a later gate rejected
\* (body that does not parse, validation, proof of work, database not
\* configured, failed insert) is not refunded: the rejection writes
\* nothing to rateLimits, so the record keeps the count and lastPost that
\* the checks set (lastPost is the instant of the key's latest allowed
\* check, the rejected request's own or a later one), and a check of the
\* key within 60 seconds of that instant is denied by the cooldown.
\* ------------------------------------------------------------------------
RejectedAfterAllowed(response) ==
  response.allowed /\ response.status \in {400, 500}

C28_NoRefund ==
  /\ [][RejectedAfterAllowed(out') => rateLimits' = rateLimits]_vars
  /\ []((RejectedAfterAllowed(out) /\ now - lastAllowed[out.ip] < COOLDOWN_MS)
          => /\ out.ip \in DOMAIN rateLimits
             /\ rateLimits[out.ip].count >= 1
             /\ rateLimits[out.ip].count = windowAllowed[out.ip]
             /\ rateLimits[out.ip].lastPost = lastAllowed[out.ip]
             /\ \A t \in {now, lastAllowed[out.ip] + COOLDOWN_MS - 1} :
                  LET next == checkRateLimit(out.ip, t, rateLimits)
                  IN ~next.allowed /\ next.error.kind = "cooldown")

\* an allowed request whose insert failed, in the second minute of the
\* key's window: nothing is persisted and the key has two posts counted
W_C28 ==
  /\ RejectedAfterAllowed(out)
  /\ out.error = "Failed to save message"
  /\ messages = <<>>
  /\ rateLimits[out.ip].count = 2
  /\ now - lastAllowed[out.ip] < COOLDOWN_MS

\* ------------------------------------------------------------------------
\* C29: the retry value of a denial is a sufficient wait: the denied
\* check's retryAfter r is positive, and the key's next check, r seconds
\* later, is not denied for the same reason; after a denial by the hourly
\* cap it is allowed.
\* ------------------------------------------------------------------------
\* the check of the denied key r seconds after the denial, no other check
\* of the key in between
RetryCheck == checkRateLimit(chk.ip, now + chk.retryAfter * 1000, rateLimits)

Denied == chk.ip # None /\ ~chk.allowed

C29_RetryAfterSuffices ==
  Denied
    => /\ chk.retryAfter > 0
       /\ RetryCheck.allowed \/ RetryCheck.error.kind # chk.error.kind
       /\ chk.error.kind = "hourly" => RetryCheck.allowed

\* the parts of C29 apart: denials by the cooldown, and denials by the
\* hourly cap whose window does not end a whole number of minutes later
C29_CooldownRetrySuffices ==
  (Denied /\ chk.error.kind = "cooldown")
    => /\ chk.retryAfter > 0
       /\ RetryCheck.allowed \/ RetryCheck.error.kind # "cooldown"

C29_CapRetrySufficesOffMinute ==
  (Denied /\ chk.error.kind = "hourly"
     /\ (chk.prior.resetAt - now) % 60000 # 0)
    => chk.retryAfter > 0 /\ RetryCheck.allowed

\* a denial by the hourly cap at the very end of the window: the retry
\* value is zero
C29_CapRetryPositive ==
  (Denied /\ chk.error.kind = "hourly") => chk.retryAfter > 0

\* ------------------------------------------------------------------------
\* C30: in every successful response of POST /wall,
\* rate_limit.remaining_posts_this_hour is an integer from 0 to 9 and is
\* 10 minus the count that the request's own rate-limit check produced,
\* whatever other requests of the key and sweeps did during the insert.
\* ------------------------------------------------------------------------
Posted == out.status = 200 /\ out.success

C30_RemainingFromOwnCheck ==
  Posted
    => /\ out.remaining \in 0..(MAX_POSTS_PER_HOUR - 1)
       /\ out.remaining = MAX_POSTS_PER_HOUR - out.checked

\* the parts of C30 apart: the range, and the responses sent while the
\* key's record is still the one the request's own check left
C30_RemainingInRange ==
  Posted => out.remaining \in 0..(MAX_POSTS_PER_HOUR - 1)

C30_RemainingWhenUndisturbed ==
  (Posted /\ out.ip \in DOMAIN rateLimits /\ rateLimits[out.ip].count = out.checked)
    => out.remaining = MAX_POSTS_PER_HOUR - out.checked

\* ------------------------------------------------------------------------
\* C31: for every interleaving of a reader's initial read, the start of its
\* subscription and concurrent inserts, the reader's list holds no id
\* twice, and every message inserted after the reader started loading is in
\* the list once its insert event and the initial read have both been
\* processed.
\* ------------------------------------------------------------------------
NoDuplicateId(list) ==
  \A i, j \in 1..Len(list) : i # j => list[i] # list[j]

\* the ids of the rows inserted after the reader started loading
InsertedSince == {messages[i].id : i \in (reader.since + 1)..Len(messages)}

InList(id) == \E i \in 1..Len(pageMessages) : pageMessages[i] = id

C31_ReaderListExact ==
  reader.mounted
    => /\ NoDuplicateId(pageMessages)
       /\ reader.fetch = "done"
            => \A id \in InsertedSince \cap reader.processed : InList(id)

\* the parts of C31 apart
C31_NoDuplicate == reader.mounted => NoDuplicateId(pageMessages)

C31_NoneLost ==
  (reader.mounted /\ reader.fetch = "done")
    => \A id \in InsertedSince \cap reader.processed : InList(id)

\* every id of the list is the id of a persisted row
C31_OnlyPersisted ==
  (reader.mounted /\ pageSupabase)
    => \A i \in 1..Len(pageMessages) :
         \E k \in 1..Len(messages) : messages[k].id = pageMessages[i]

====
